---- MODULE Spec2Model ----
(***************************************************************************)
(* Continental Snooker booking page (src/continental_app.py).              *)
(*                                                                         *)
(* The page is a Streamlit script: every interaction re-runs the script    *)
(* top to bottom.  A run with the "Save Booking" button pressed executes   *)
(* the save handler, then the Quick Stats section, then the All Bookings   *)
(* listing; a run without the button executes only the last two.           *)
(*                                                                         *)
(* Texts are sequences of one-character strings so that strip(), upper()   *)
(* and strptime() can be computed the way the code computes them.  Money   *)
(* is kept in hundredths of a rupee (an integer).                          *)
(***************************************************************************)
EXTENDS Integers, Sequences, FiniteSets, TLC

VARIABLES
    file,      \* snooker_bookings.xlsx on disk
    form,      \* the four input widgets of the booking section
    today,     \* the calendar date datetime.today() returns
    run,       \* what the last script run displayed
    receipts,  \* history: the success messages shown so far (price, date)
    sess,      \* concurrent sessions: each one's position in the save handler
    writes     \* history: number of times the ledger file was rewritten

vars == <<file, form, today, run, receipts, sess, writes>>

(***************************************************************************)
(* Bounds of the model.                                                    *)
(***************************************************************************)
MaxRows == 2       \* successful saves are explored up to this ledger length

(***************************************************************************)
(* Text helpers.                                                           *)
(***************************************************************************)
LowerCase == <<"a","b","c","d","e","f","g","h","i","j","k","l","m",
               "n","o","p","q","r","s","t","u","v","w","x","y","z">>
UpperCase == <<"A","B","C","D","E","F","G","H","I","J","K","L","M",
               "N","O","P","Q","R","S","T","U","V","W","X","Y","Z">>
Digits == <<"0","1","2","3","4","5","6","7","8","9">>

IsSpace(c) == c \in {" ", "\t", "\n"}
IsDigit(c) == \E i \in 1..10 : Digits[i] = c
DigitVal(c) == (CHOOSE i \in 1..10 : Digits[i] = c) - 1

\* str.upper(), character by character
UpperChar(c) ==
    IF \E i \in 1..26 : LowerCase[i] = c
    THEN UpperCase[CHOOSE i \in 1..26 : LowerCase[i] = c]
    ELSE c
upper(s) == [i \in 1..Len(s) |-> UpperChar(s[i])]

\* str.strip(): drop leading and trailing whitespace
RECURSIVE lstrip(_)
lstrip(s) == IF s # <<>> /\ IsSpace(Head(s)) THEN lstrip(Tail(s)) ELSE s
RECURSIVE rstrip(_)
rstrip(s) ==
    IF s # <<>> /\ IsSpace(s[Len(s)]) THEN rstrip(SubSeq(s, 1, Len(s) - 1)) ELSE s
strip(s) == rstrip(lstrip(s))

(***************************************************************************)
(* datetime.strptime(text, "%I:%M %p").  The format compiles to the regex  *)
(*   (1[0-2]|0[1-9]|[1-9]):([0-5]\d|\d)\s+(am|pm)   (case-insensitive)     *)
(* which must match the whole text.  The result is the time of day in      *)
(* minutes after midnight, or ValueError.                                  *)
(***************************************************************************)
ValueError == -1

\* group I: 1[0-2] | 0[1-9] | [1-9]
HourOf(h) ==
    IF Len(h) = 1 /\ IsDigit(h[1]) /\ DigitVal(h[1]) >= 1 THEN DigitVal(h[1])
    ELSE IF Len(h) = 2 /\ IsDigit(h[1]) /\ IsDigit(h[2])
            /\ \/ (h[1] = "1" /\ DigitVal(h[2]) <= 2)
               \/ (h[1] = "0" /\ DigitVal(h[2]) >= 1)
         THEN 10 * DigitVal(h[1]) + DigitVal(h[2])
    ELSE ValueError

\* group M: [0-5]\d | \d
MinuteOf(m) ==
    IF Len(m) = 1 /\ IsDigit(m[1]) THEN DigitVal(m[1])
    ELSE IF Len(m) = 2 /\ IsDigit(m[1]) /\ IsDigit(m[2]) /\ DigitVal(m[1]) <= 5
         THEN 10 * DigitVal(m[1]) + DigitVal(m[2])
    ELSE ValueError

\* group p: am | pm, matched case-insensitively
MeridiemOf(p) ==
    IF upper(p) = <<"A","M">> THEN "AM"
    ELSE IF upper(p) = <<"P","M">> THEN "PM"
    ELSE "none"

\* %I with %p: 12 AM is hour 0, 12 PM is hour 12, other PM hours add 12
Hour24(h, p) ==
    IF p = "PM" THEN (IF h = 12 THEN 12 ELSE h + 12)
    ELSE (IF h = 12 THEN 0 ELSE h)

FirstColon(s) == CHOOSE i \in 1..Len(s) : s[i] = ":" /\ \A j \in 1..(i - 1) : s[j] # ":"

\* the minute digits end at the first whitespace
MinuteEnd(rest) ==
    IF \E i \in 1..Len(rest) : IsSpace(rest[i])
    THEN (CHOOSE i \in 1..Len(rest) :
              IsSpace(rest[i]) /\ \A j \in 1..(i - 1) : ~IsSpace(rest[j])) - 1
    ELSE Len(rest)

\* h, m: groups I and M; tail: what follows the minute digits, \s+(am|pm)
ClockOf(h, m, tail) ==
    IF h = ValueError \/ m = ValueError THEN ValueError
    ELSE IF tail = <<>> \/ ~IsSpace(tail[1]) THEN ValueError
    ELSE IF MeridiemOf(lstrip(tail)) = "none" THEN ValueError
    ELSE 60 * Hour24(h, MeridiemOf(lstrip(tail))) + m

AfterColon(h, rest, nd) ==
    ClockOf(h, MinuteOf(SubSeq(rest, 1, nd)), SubSeq(rest, nd + 1, Len(rest)))

AfterHour(h, rest) == AfterColon(h, rest, MinuteEnd(rest))

SplitAt(s, colon) ==
    AfterHour(HourOf(SubSeq(s, 1, colon - 1)), SubSeq(s, colon + 1, Len(s)))

strptime(s) ==
    IF ~ \E i \in 1..Len(s) : s[i] = ":" THEN ValueError
    ELSE SplitAt(s, FirstColon(s))

(***************************************************************************)
(* Pricing.                                                                *)
(***************************************************************************)
Tables == {"English Snooker Table 1", "English Snooker Table 2", "French Snooker Table"}

PRICES ==
    [t \in Tables |-> IF t = "French Snooker Table" THEN 250 ELSE 200]

MinutesPerDay == 1440

\* Delta without the cross-midnight adjustment
DeltaNoWrap(startMin, endMin) == endMin - startMin

\* delta = end_dt - start_dt; if negative, one day is added
Delta(startMin, endMin) ==
    IF endMin - startMin < 0 THEN endMin - startMin + MinutesPerDay
    ELSE endMin - startMin

\* Python's round(x, 2) on num/den rupees, in hundredths: to nearest, ties to even
RoundHundredths(num, den) ==
    LET q == (100 * num) \div den
        r == (100 * num) % den
    IN  IF 2 * r > den THEN q + 1
        ELSE IF 2 * r < den THEN q
        ELSE IF q % 2 = 0 THEN q ELSE q + 1

\* PriceOf cutting the price off after two decimals instead of rounding it
PriceTruncated(table, minutes) == (100 * minutes * PRICES[table]) \div 60

\* hours = delta.total_seconds() / 3600 ; price = round(hours * PRICES[table], 2)
\* (for every duration of 1..1439 minutes the float result is the float nearest
\*  to the exact quotient's rounding, so the exact quotient is rounded here)
PriceOf(table, minutes) == RoundHundredths(minutes * PRICES[table], 60)

(***************************************************************************)
(* The ledger file and its cells.  A cell is a text, a number (hundredths) *)
(* or empty; a DataFrame value is a text, a number or NaN, kept in the     *)
(* same three shapes.                                                      *)
(***************************************************************************)
Str(s) == [t |-> "str", s |-> s, n |-> 0]
Num(n) == [t |-> "num", s |-> <<>>, n |-> n]
NaN    == [t |-> "nan", s |-> <<>>, n |-> 0]

Columns == {"Name", "Table", "Time", "Price", "Date"}

Absent == [state |-> "absent", rows |-> <<>>, raises |-> "none"]
Present(rows) == [state |-> "present", rows |-> rows, raises |-> "none"]
\* a file that exists and that read_excel cannot load; raises is the
\* exception type read_excel ends with on it
Corrupt(exc) == [state |-> "corrupt", rows |-> <<>>, raises |-> exc]

\* os.path.exists(EXCEL_FILE)
Exists(f) == f.state # "absent"

\* pd.read_excel with its defaults (keep_default_na=True): a text cell whose
\* text is one of pandas' default NA markers is read as NaN
NaStrings ==
    { <<>>, <<"N","A">>, <<"N","/","A">>, <<"n","/","a">>, <<"N","a","N">>,
      <<"n","a","n">>, <<"N","U","L","L">>, <<"n","u","l","l">>,
      <<"N","o","n","e">>, <<"#","N","/","A">>, <<"<","N","A",">">> }

ReadCell(c) == IF c.t = "str" /\ c.s \in NaStrings THEN NaN ELSE c

\* the DataFrame pd.read_excel returns for a loadable file
read_excel(f) == [i \in 1..Len(f.rows) |-> [c \in Columns |-> ReadCell(f.rows[i][c])]]

\* DataFrame.to_excel(..., index=False): every value becomes a cell, NaN an
\* empty cell; the whole file is replaced
to_excel(df) == Present(df)

\* datetime.today().strftime("%Y-%m-%d")
Pad2(n) == <<Digits[((n \div 10) % 10) + 1], Digits[(n % 10) + 1]>>
strftime(d) ==
    Pad2(d.y \div 100) \o Pad2(d.y % 100) \o <<"-">> \o Pad2(d.m) \o <<"-">> \o Pad2(d.d)

\* the dict new_row of the save handler
NewRow(name, table, start_time, end_time, price, day) ==
    [Name  |-> Str(strip(name)),
     Table |-> Str(<<table>>),      \* a PRICES key, kept as one token
     Time  |-> Str(start_time \o <<" ", "-", " ">> \o end_time),
     Price |-> Num(price),
     Date  |-> Str(strftime(day))]

\* Concat keeping only the new row
ConcatOnlyNew(df, row) == <<row>>

\* pd.concat([df, pd.DataFrame([new_row])], ignore_index=True)
Concat(df, row) == Append(df, row)

(***************************************************************************)
(* The save handler: the body of `if st.button("Save Booking")`.           *)
(***************************************************************************)
\* which except clause an exception type reaches
IsValueErrorType(exc) == exc = "ValueError"
Catch(exc) == IF IsValueErrorType(exc) THEN "InvalidTime" ELSE "Unexpected"

\* PriceDelta with the duration guard written as < 0 instead of <= 0
PriceDeltaLaxGuard(table, delta) ==
    IF delta < 0
    THEN [raised |-> "none", msg |-> "NonPositive", minutes |-> delta, price |-> 0]
    ELSE [raised |-> "none", msg |-> "Priced", minutes |-> delta,
          price |-> PriceOf(table, delta)]

\* lines 141-145: the duration guard, hours and price
PriceDelta(table, delta) ==
    IF delta <= 0
    THEN [raised |-> "none", msg |-> "NonPositive", minutes |-> delta, price |-> 0]
    ELSE [raised |-> "none", msg |-> "Priced", minutes |-> delta,
          price |-> PriceOf(table, delta)]

\* lines 137-145, given the two parsed times (ValueError: strptime raised)
PriceTimes(table, start_dt, end_dt) ==
    IF start_dt = ValueError \/ end_dt = ValueError
    THEN [raised |-> "ValueError", msg |-> "none", minutes |-> 0, price |-> 0]
    ELSE PriceDelta(table, Delta(start_dt, end_dt))

\* lines 133-145 of the try block: parse both times, guard the duration, price
Priced(table, start_time, end_time) ==
    PriceTimes(table, strptime(upper(strip(start_time))),
                      strptime(upper(strip(end_time))))

\* LoadOrCreate that never reads the file that is there
LoadAlwaysEmpty(f) == [raised |-> "none", df |-> <<>>]

\* lines 148-151: load the ledger or start an empty frame
LoadOrCreate(f) ==
    IF ~Exists(f) THEN [raised |-> "none", df |-> <<>>]
    ELSE IF f.state = "corrupt" THEN [raised |-> f.raises, df |-> <<>>]
    ELSE [raised |-> "none", df |-> read_excel(f)]

\* lines 154-162: append the booking and rewrite the file
Rewrite(df, day, name, table, start_time, end_time, price) ==
    to_excel(Concat(df, NewRow(name, table, start_time, end_time, price, day)))

\* lines 147-165, given the priced booking p and the load result l
SaveWith(p, l, f, day, name, table, start_time, end_time) ==
    IF l.raised # "none"
    THEN [raised |-> l.raised, msg |-> "none", minutes |-> p.minutes,
          price |-> 0, file |-> f]
    ELSE [raised |-> "none", msg |-> "Saved", minutes |-> p.minutes,
          price |-> p.price,
          file |-> Rewrite(l.df, day, name, table, start_time, end_time, p.price)]

\* lines 133-165, given the priced booking p
TryWith(p, f, day, name, table, start_time, end_time) ==
    IF p.raised # "none" \/ p.msg # "Priced"
    THEN [raised |-> p.raised, msg |-> p.msg, minutes |-> p.minutes,
          price |-> 0, file |-> f]
    ELSE SaveWith(p, LoadOrCreate(f), f, day, name, table, start_time, end_time)

\* the try block; raised # "none" means an exception left it
TryBlock(f, day, name, table, start_time, end_time) ==
    TryWith(Priced(table, start_time, end_time), f, day, name, table,
            start_time, end_time)

\* the except clauses around the try block's outcome r
Caught(r) ==
    IF r.raised = "none"
    THEN [msg |-> r.msg, minutes |-> r.minutes, price |-> r.price, file |-> r.file]
    ELSE [msg |-> Catch(r.raised), minutes |-> 0, price |-> 0, file |-> r.file]

Handler(f, day, name, table, start_time, end_time) ==
    IF strip(name) = <<>>
    THEN [msg |-> "EmptyName", minutes |-> 0, price |-> 0, file |-> f]
    ELSE Caught(TryBlock(f, day, name, table, start_time, end_time))

(***************************************************************************)
(* Quick Stats and the export buffer.                                      *)
(***************************************************************************)
RECURSIVE DecimalOf(_)
DecimalOf(s) == IF s = <<>> THEN 0 ELSE 10 * DecimalOf(SubSeq(s, 1, Len(s) - 1)) + DigitVal(s[Len(s)])

\* pd.to_numeric(cell, errors='coerce'): digits-only text is its number,
\* any other text and NaN are NaN
to_numeric(c) ==
    IF c.t = "num" THEN c
    ELSE IF c.t = "str" /\ c.s # <<>> /\ \A i \in 1..Len(c.s) : IsDigit(c.s[i])
         THEN Num(100 * DecimalOf(c.s))
    ELSE NaN

fillna0(c) == IF c.t = "nan" THEN Num(0) ELSE c

\* df['Price'] = pd.to_numeric(df['Price'], errors='coerce').fillna(0)
CoercePrice(df) ==
    [i \in 1..Len(df) |-> [df[i] EXCEPT !.Price = fillna0(to_numeric(df[i].Price))]]

RECURSIVE SumPrice(_)
SumPrice(df) == IF df = <<>> THEN 0 ELSE df[1].Price.n + SumPrice(Tail(df))

\* SelectDate without the filter
SelectEveryDate(df, text) == df

\* df[df["Date"] == datetime.today().strftime("%Y-%m-%d")]
RECURSIVE SelectDate(_, _)
SelectDate(df, text) ==
    IF df = <<>> THEN <<>>
    ELSE IF df[1].Date = Str(text) THEN <<df[1]>> \o SelectDate(Tail(df), text)
    ELSE SelectDate(Tail(df), text)

\* the frame the download button's buffer is written from
ExportFrame(df) == df

\* metrics: the values of the st.metric calls made, in order (none when the
\* section shows st.info instead); export: the bytes of the download buffer
NoStats(kind) == [kind |-> kind, metrics |-> <<>>, export |-> Absent]

Metrics(df, day) ==
    [kind    |-> "metrics",
     metrics |-> << Len(df), SumPrice(df), SumPrice(SelectDate(df, strftime(day))) >>,
     export  |-> to_excel(ExportFrame(df))]

QuickStats(f, day) ==
    IF ~Exists(f) THEN NoStats("info")
    ELSE IF f.state = "corrupt" THEN NoStats("crash")
    ELSE Metrics(CoercePrice(read_excel(f)), day)

\* the All Bookings section; not reached when Quick Stats raised
Listing(f, stats) ==
    IF stats.kind = "crash" THEN "notrun"
    ELSE IF ~Exists(f) THEN "info"
    ELSE IF f.state = "corrupt" THEN "crash"
    ELSE "table"

(***************************************************************************)
(* Inputs.                                                                 *)
(***************************************************************************)
Days == << [y |-> 2025, m |-> 12, d |-> 31], [y |-> 2026, m |-> 1, d |-> 1] >>

NameBob == <<" ","B","o","b"," ">>
NameNA  == <<"N","A">>
Names   == { <<" ">>, NameBob, NameNA }

InTables == {"English Snooker Table 1", "French Snooker Table"}

T0200PM == <<"0","2",":","0","0"," ","P","M">>
T0300PM == <<"0","3",":","0","0"," ","P","M">>
T0330pm == <<" ","3",":","3","0"," ","p","m">>
T2PM    == <<"2"," ","P","M">>
T1400   == <<"1","4",":","0","0">>
\* (start text, end text) pairs typed into the form
TimePairs == { <<T0200PM, T0330pm>>, <<T0200PM, T0200PM>>,
               <<T2PM, T0330pm>>, <<T0200PM, T1400>> }

NoRun ==
    [op |-> "none", msg |-> "none", minutes |-> 0, price |-> 0,
     stats |-> NoStats("notrun"), listing |-> "notrun"]

Sessions == {1, 2}
IdleSession ==
    [pc |-> "idle", name |-> <<>>, table |-> "English Snooker Table 1",
     start_time |-> <<>>, end_time |-> <<>>, price |-> 0, df |-> <<>>,
     msg |-> "none", saw |-> 0]

\* the widgets' defaults
DefaultForm ==
    [name |-> <<>>, table |-> "English Snooker Table 1",
     start_time |-> T0200PM, end_time |-> T0300PM]

(***************************************************************************)
(* One script run, single session.                                         *)
(***************************************************************************)
ScriptRun(button, name, table, start_time, end_time) ==
    \E h \in {IF button THEN Handler(file, today, name, table, start_time, end_time)
              ELSE [msg |-> "none", minutes |-> 0, price |-> 0, file |-> file]} :
    \E st \in {QuickStats(h.file, today)} :
        /\ (h.msg = "Saved" => Len(h.file.rows) <= MaxRows)
        /\ file' = h.file
        /\ run' = [op |-> IF button THEN "save" ELSE "view", msg |-> h.msg,
                   minutes |-> h.minutes, price |-> h.price, stats |-> st, listing |-> Listing(h.file, st)]
        /\ receipts' = IF h.msg = "Saved"
                       THEN Append(receipts, [price |-> h.price, date |-> strftime(today)])
                       ELSE receipts
        /\ writes' = IF h.msg = "Saved" THEN writes + 1 ELSE writes
        /\ UNCHANGED <<today, sess>>

\* the user fills the form and presses Save Booking
SaveBooking ==
    \E name \in Names, table \in InTables, times \in TimePairs :
        /\ form' = [name |-> name, table |-> table,
                    start_time |-> times[1], end_time |-> times[2]]
        /\ ScriptRun(TRUE, name, table, times[1], times[2])

\* a rerun without the button (page load, download click)
ViewPage ==
    /\ ScriptRun(FALSE, form.name, form.table, form.start_time, form.end_time)
    /\ UNCHANGED form

\* midnight passes
NextDay ==
    /\ today = Days[1]
    /\ today' = Days[2]
    /\ UNCHANGED <<file, form, run, receipts, sess, writes>>

Init ==
    /\ file = Absent
    /\ form = DefaultForm
    /\ today = Days[1]
    /\ run = NoRun
    /\ receipts = <<>>
    /\ sess = [s \in Sessions |-> IdleSession]
    /\ writes = 0

Next == SaveBooking \/ ViewPage \/ NextDay

Spec == Init /\ [][Next]_vars

(***************************************************************************)
(* The same page started on a ledger file that is already there: written   *)
(* by earlier runs, edited by hand in a spreadsheet, or damaged.           *)
(***************************************************************************)
Row(name, table, time, price, date) ==
    [Name |-> name, Table |-> Str(<<table>>), Time |-> Str(time),
     Price |-> price, Date |-> Str(date)]

TimeText == T0200PM \o <<" ", "-", " ">> \o T0300PM
Yesterday == <<"2","0","2","5","-","1","2","-","3","0">>

RowPaid   == Row(Str(<<"A","n","n">>), "French Snooker Table", TimeText,
                 Num(25000), Yesterday)
RowText   == Row(Str(<<"C","y">>), "English Snooker Table 1", TimeText,
                 Str(<<"a","b","c">>), strftime(Days[1]))
RowBlank  == Row(Str(<<"D","i">>), "English Snooker Table 2", TimeText,
                 NaN, strftime(Days[1]))

InitialFiles ==
    { Absent,
      Present(<<RowPaid>>),
      Present(<<RowText>>),
      Present(<<RowPaid, RowBlank>>),
      Corrupt("ValueError"),      \* not an Excel file: format cannot be determined
      Corrupt("BadZipFile") }     \* a damaged .xlsx archive

InitFile ==
    /\ file \in InitialFiles
    /\ form = DefaultForm
    /\ today = Days[1]
    /\ run = NoRun
    /\ receipts = <<>>
    /\ sess = [s \in Sessions |-> IdleSession]
    /\ writes = 0

SpecFile == InitFile /\ [][Next]_vars

(***************************************************************************)
(* The save handler applied once to each form of a larger set of clock     *)
(* texts, on an empty ledger.                                              *)
(***************************************************************************)
MinuteSamples == {0, 1, 30, 59}

\* the text "hh:mm AM" / "hh:mm PM" a user types for a clock time
FormatClock(h, m, p) == Pad2(h) \o <<":">> \o Pad2(m) \o <<" ", p, "M">>

ClockTexts ==
    { FormatClock(h, m, p) : h \in 1..12, m \in MinuteSamples, p \in {"A", "P"} }

T25pm == <<" ","2",":","5"," "," ","p","m"," ">>
OddTexts == { T2PM, T1400, T0330pm, T25pm }

PriceForms ==
    [name : {NameBob}, table : Tables,
     start_time : ClockTexts \cup OddTexts, end_time : ClockTexts \cup OddTexts]

PriceRun ==
    /\ run.op = "none"
    /\ ScriptRun(TRUE, form.name, form.table, form.start_time, form.end_time)
    /\ UNCHANGED form

InitPrice ==
    /\ file = Absent
    /\ form \in PriceForms
    /\ today = Days[1]
    /\ run = NoRun
    /\ receipts = <<>>
    /\ sess = [s \in Sessions |-> IdleSession]
    /\ writes = 0

NextPrice == PriceRun

SpecPrice == InitPrice /\ [][NextPrice]_vars

(***************************************************************************)
(* Two browser sessions on the same ledger file.  Each session runs the    *)
(* script in its own thread; the file is touched twice by the save         *)
(* handler, once by read_excel and once by to_excel, and another session   *)
(* may run between the two.                                                *)
(***************************************************************************)
NameAnn == <<"A","n","n">>
ConcNames == { <<" ">>, NameBob, NameAnn }

Finish(s, kind) == sess' = [sess EXCEPT ![s].pc = "done", ![s].msg = kind]

\* lines 127-145: the button is pressed; validation and pricing
Press(s) ==
    /\ sess[s].pc = "idle"
    /\ \E name \in ConcNames, table \in InTables, times \in TimePairs :
         \E p \in {Priced(table, times[1], times[2])} :
           sess' = [sess EXCEPT ![s] =
               [@ EXCEPT !.name = name, !.table = table,
                         !.start_time = times[1], !.end_time = times[2],
                         !.price = p.price,
                         !.pc  = IF strip(name) # <<>> /\ p.msg = "Priced"
                                 THEN "priced" ELSE "done",
                         !.msg = IF strip(name) = <<>> THEN "EmptyName"
                                 ELSE IF p.raised # "none" THEN Catch(p.raised)
                                 ELSE IF p.msg = "Priced" THEN "none" ELSE p.msg]]
    /\ UNCHANGED <<file, form, today, run, receipts, writes>>

\* lines 148-151: the whole file is read
Load(s) ==
    /\ sess[s].pc = "priced"
    /\ \E l \in {LoadOrCreate(file)} :
         IF l.raised # "none" THEN Finish(s, Catch(l.raised))
         ELSE sess' = [sess EXCEPT ![s].pc = "loaded", ![s].df = l.df,
                                   ![s].saw = writes]
    /\ UNCHANGED <<file, form, today, run, receipts, writes>>

\* lines 154-164: the whole file is rewritten, success is reported
Write(s) ==
    /\ sess[s].pc = "loaded"
    /\ file' = Rewrite(sess[s].df, today, sess[s].name, sess[s].table,
                       sess[s].start_time, sess[s].end_time, sess[s].price)
    /\ Finish(s, "Saved")
    /\ receipts' = Append(receipts, [price |-> sess[s].price, date |-> strftime(today)])
    /\ writes' = writes + 1
    /\ UNCHANGED <<form, today, run>>

InitConc ==
    /\ file \in {Absent, Present(<<RowPaid>>)}
    /\ form = DefaultForm
    /\ today = Days[1]
    /\ run = NoRun
    /\ receipts = <<>>
    /\ sess = [s \in Sessions |-> IdleSession]
    /\ writes = 0

NextConc == \E s \in Sessions : Press(s) \/ Load(s) \/ Write(s)

SpecConc == InitConc /\ [][NextConc]_vars

(***************************************************************************)
(* What the claims are stated against: the clock time a text denotes,      *)
(* written down independently of strptime.                                 *)
(***************************************************************************)
ClockMinutes(h, m, p) == 60 * ((h % 12) + (IF p = "P" THEN 12 ELSE 0)) + m

Expected ==
    [t \in ClockTexts \cup OddTexts |->
        IF t \in ClockTexts
        THEN LET hmp == CHOOSE x \in (1..12) \X MinuteSamples \X {"A", "P"} :
                            t = FormatClock(x[1], x[2], x[3])
             IN  ClockMinutes(hmp[1], hmp[2], hmp[3])
        ELSE IF t = T0330pm THEN ClockMinutes(3, 30, "P")
        ELSE IF t = T25pm THEN ClockMinutes(2, 5, "P")
        ELSE -1]

ValidPair == Expected[form.start_time] >= 0 /\ Expected[form.end_time] >= 0
ExpectedMinutes == (Expected[form.end_time] - Expected[form.start_time]) % 1440

\* C4: for every pair of valid 12-hour clock times, a start different from the
\* end gives a duration of (end - start) modulo 24 hours, strictly between 0
\* and 24 hours, and the booking is saved; a start equal to the end is rejected
\* as a non-positive duration and nothing is appended.
C4_DurationWraps ==
    (run.op = "save" /\ ValidPair) =>
        IF Expected[form.start_time] # Expected[form.end_time]
        THEN /\ run.msg = "Saved"
             /\ run.minutes = ExpectedMinutes
             /\ 0 < run.minutes /\ run.minutes < 1440
        ELSE /\ run.msg = "NonPositive"
             /\ file = Absent
             /\ receipts = <<>>

\* start 11:00 PM, end 01:00 AM: two hours
C4_Witness ==
    /\ run.op = "save"
    /\ form.start_time = FormatClock(11, 0, "P")
    /\ form.end_time = FormatClock(1, 0, "A")
    /\ run.msg = "Saved"
    /\ run.minutes = 120

RateOf(table) ==
    CASE table = "English Snooker Table 1" -> 200
      [] table = "English Snooker Table 2" -> 200
      [] table = "French Snooker Table" -> 250

\* m minutes at rate r, in hundredths, rounded half-up and half-to-even
HalfUp(m, r) == (2 * 100 * m * r + 60) \div 120
HalfEven(m, r) ==
    LET q == (100 * m * r) \div 60
        f == (100 * m * r) % 60
    IN  IF f > 30 \/ (f = 30 /\ q % 2 = 1) THEN q + 1 ELSE q

\* C5: a saved booking's Price is minutes/60 times the table's rate (200, 200,
\* 250) rounded to two decimals, where half-up and half-to-even rounding agree
\* because the exact price never ends in half a hundredth; its Time is the
\* start text, " - ", the end text as entered.
C5_PriceFormula ==
    (run.op = "save" /\ run.msg = "Saved") =>
        /\ ValidPair
        /\ (100 * ExpectedMinutes * RateOf(form.table)) % 60 # 30
        /\ HalfUp(ExpectedMinutes, RateOf(form.table))
             = HalfEven(ExpectedMinutes, RateOf(form.table))
        /\ run.price = HalfUp(ExpectedMinutes, RateOf(form.table))
        /\ Len(file.rows) = 1
        /\ file.rows[1].Price = Num(run.price)
        /\ file.rows[1].Time =
             Str(form.start_time \o <<" ", "-", " ">> \o form.end_time)

\* rate 200, 02:00 PM to 03:30 PM: 1.5 hours, 300.00
C5_Witness ==
    /\ run.msg = "Saved"
    /\ form.table = "English Snooker Table 1"
    /\ form.start_time = FormatClock(2, 0, "P")
    /\ form.end_time = FormatClock(3, 30, "P")
    /\ file.rows[1].Price = Num(30000)
    /\ file.rows[1].Time =
         Str(<<"0","2",":","0","0"," ","P","M"," ","-"," ","0","3",":","3","0"," ","P","M">>)

(***************************************************************************)
(* Claims about the single-session page.                                   *)
(***************************************************************************)
\* loadAll(): the absent ledger reads as empty
LoadAll(f) == IF f.state = "present" THEN read_excel(f) ELSE <<>>

IsBlank(text) == \A i \in 1..Len(text) : text[i] \in {" ", "\t", "\n"}

\* the name between its first and last non-blank character
Trimmed(text) ==
    IF IsBlank(text) THEN <<>>
    ELSE LET nb == {i \in 1..Len(text) : text[i] \notin {" ", "\t", "\n"}}
             lo == CHOOSE i \in nb : \A j \in nb : i <= j
             hi == CHOOSE i \in nb : \A j \in nb : i >= j
         IN  SubSeq(text, lo, hi)

\* why a save attempt with this form must fail, "none" when it must not
ErrorCause(f) ==
    IF IsBlank(f.name) THEN "EmptyName"
    ELSE IF Expected[f.start_time] < 0 \/ Expected[f.end_time] < 0 THEN "InvalidTime"
    ELSE IF Expected[f.start_time] = Expected[f.end_time] THEN "NonPositive"
    ELSE "none"

\* the record a successful save of this form makes
BookingRecord(f, price, day) ==
    [Name  |-> Str(Trimmed(f.name)),
     Table |-> Str(<<f.table>>),
     Time  |-> Str(f.start_time \o <<" ", "-", " ">> \o f.end_time),
     Price |-> Num(price),
     Date  |-> Str(strftime(day))]

\* C1: after a save that passes validation the ledger reads as what it read
\* before, every prior row unchanged and in order, followed by exactly one new
\* last row built from the form input.
C1_AppendMonotone ==
    [][ (run'.op = "save" /\ today' = today /\ ErrorCause(form') = "none") =>
          /\ run'.msg = "Saved"
          /\ LoadAll(file') =
               Append(LoadAll(file), BookingRecord(form', run'.price, today')) ]_vars

\* C3: a save attempt that ends in an error (blank name, a time text that does
\* not parse, start equal to end) leaves the ledger file exactly as it was, an
\* absent file absent, shows the error of its cause, and the Quick Stats and
\* All Bookings sections of the same run are still rendered.
C3_ErrorKeepsLedger ==
    [][ (run'.op = "save" /\ today' = today /\ ErrorCause(form') # "none") =>
          /\ file' = file
          /\ (file.state = "absent" => file'.state = "absent")
          /\ receipts' = receipts
          /\ run'.msg = ErrorCause(form')
          /\ run'.stats.kind \in {"info", "metrics"}
          /\ run'.listing \in {"info", "table"} ]_vars

\* a malformed time text on a ledger that already holds a booking
C3_Witness ==
    /\ run.op = "save"
    /\ form.start_time = T2PM
    /\ run.msg = "InvalidTime"
    /\ file.state = "present"
    /\ Len(file.rows) >= 1
    /\ run.stats.kind = "metrics"
    /\ run.listing = "table"

\* C7: started on an absent ledger, the file is absent exactly while no save has
\* succeeded and present with at least one row afterwards; only a successful
\* save takes it from absent to present, nothing takes it back, and the number
\* of rows never decreases.
C7_LedgerStates ==
    /\ [](/\ file.state \in {"absent", "present"}
          /\ file.state = "absent" <=> receipts = <<>>
          /\ file.state = "present" => Len(file.rows) >= 1
          /\ Len(file.rows) = Len(receipts))
    /\ [][ /\ file.state = "present" => file'.state = "present"
           /\ Len(file'.rows) >= Len(file.rows)
           /\ (file.state = "absent" /\ file'.state = "present") =>
                (run'.op = "save" /\ run'.msg = "Saved" /\ Len(receipts') = 1) ]_vars

\* two saves, then a run that only views the page
C7_Witness ==
    /\ file.state = "present"
    /\ Len(file.rows) = 2
    /\ Len(receipts) = 2
    /\ run.op = "view"
    /\ run.listing = "table"

\* C9: every row of the ledger has a Name that is non-empty and trimmed, a Table
\* of the rate table, a Price of at least 0 and the Date of the day it was
\* saved; a row once written is never changed by a later save.
C9_RecordInvariants ==
    /\ [](\A i \in 1..Len(LoadAll(file)) :
            LET r == LoadAll(file)[i]
            IN  /\ r.Name.t = "str"
                /\ r.Name.s # <<>>
                /\ Trimmed(r.Name.s) = r.Name.s
                /\ \E t \in DOMAIN PRICES : r.Table = Str(<<t>>)
                /\ r.Price.t = "num" /\ r.Price.n >= 0
                /\ i <= Len(receipts) /\ r.Date = Str(receipts[i].date))
    /\ [][ \A i \in 1..Len(file.rows) :
             i <= Len(file'.rows) /\ file'.rows[i] = file.rows[i] ]_vars

(***************************************************************************)
(* Claims about the page on any ledger file.                               *)
(***************************************************************************)
\* the value a Price cell counts for: a number counts as itself, anything else 0
PriceValue(c) == IF c.t = "num" THEN c.n ELSE 0

\* the sum of the Price values of the rows numbered in idx, in hundredths
RECURSIVE Revenue(_, _)
Revenue(rows, idx) ==
    IF idx = {} THEN 0
    ELSE LET i == CHOOSE j \in idx : TRUE
         IN  PriceValue(rows[i].Price) + Revenue(rows, idx \ {i})

RECURSIVE ReceiptSum(_)
ReceiptSum(rs) == IF rs = <<>> THEN 0 ELSE rs[1].price + ReceiptSum(Tail(rs))

Aggregate(f, day) ==
    << Len(f.rows),
       Revenue(f.rows, 1..Len(f.rows)),
       Revenue(f.rows, {i \in 1..Len(f.rows) : f.rows[i].Date = Str(strftime(day))}) >>

\* C6 as stated: the displayed statistics are the aggregate of the ledger, and
\* for the absent ledger they are count 0, total revenue 0, today's revenue 0.
C6_AsStated ==
    [][ (run'.op # "none" /\ today' = today /\ file'.state # "corrupt") =>
          run'.stats.metrics = Aggregate(file', today') ]_vars

\* C6, amended: for a ledger file that is present the three metrics are the
\* number of rows, the sum of Price with a non-numeric or missing Price counted
\* as 0, and that sum over the rows dated today; for the absent ledger the
\* section shows "No bookings yet!" and no metric at all.  On a ledger started
\* absent both revenues equal the sum of the prices of the saves made, as long
\* as all of them were made today.
C6_Aggregate ==
    [][ (run'.op # "none" /\ today' = today) =>
          /\ file'.state = "present" =>
               /\ run'.stats.kind = "metrics"
               /\ run'.stats.metrics = Aggregate(file', today')
          /\ file'.state = "absent" =>
               /\ run'.stats.kind = "info"
               /\ run'.stats.metrics = <<>>
          /\ (file'.state = "present" /\ Len(file'.rows) = Len(receipts')) =>
               /\ run'.stats.metrics[2] = ReceiptSum(receipts')
               /\ (\A i \in 1..Len(receipts') : receipts'[i].date = strftime(today'))
                    => run'.stats.metrics[3] = ReceiptSum(receipts') ]_vars

\* a booking saved today onto a ledger whose only row has a text in Price
C6_Witness ==
    /\ file.state = "present"
    /\ Len(file.rows) = 2
    /\ file.rows[1] = RowText
    /\ Len(receipts) = 1
    /\ receipts[1].price > 0
    /\ run.stats.metrics = <<2, receipts[1].price, receipts[1].price>>

\* C8: the export buffer decodes to the rows loading the ledger returns, also
\* when a row's Price is non-numeric or missing, and making it leaves the file
\* on disk as it was.
C8_ExportRoundTrip ==
    [][ (run'.op = "view" /\ today' = today /\ file.state = "present") =>
          /\ file' = file
          /\ run'.stats.kind = "metrics"
          /\ LoadAll(run'.stats.export) = LoadAll(file') ]_vars

\* C10: a failed save reports InvalidTimeFormat exactly when the start or the
\* end text does not parse; a failure of a later step (loading a malformed
\* ledger) is reported as an unexpected failure, never as an invalid time.
C10_ErrorClassification ==
    run.op = "save" =>
        /\ run.msg = "InvalidTime" <=> ErrorCause(form) = "InvalidTime"
        /\ (file.state = "corrupt" /\ ErrorCause(form) = "none") => run.msg = "Unexpected"

(***************************************************************************)
(* Claims about two sessions.                                              *)
(***************************************************************************)
RowOf(s) ==
    BookingRecord(sess[s], sess[s].price, today)

BothSaved == \A s \in Sessions : sess[s].pc = "done" /\ sess[s].msg = "Saved"

\* C2: when both sessions report success, then if both had loaded the file
\* before either rewrote it the ledger holds the rows one of them loaded plus
\* that session's record only (the other record is lost); if one loaded after
\* the other had rewritten, both records are present, in the order written.
C2_LostUpdate ==
    BothSaved =>
        /\ Len(receipts) = 2
        /\ sess[1].saw = sess[2].saw =>
             /\ sess[1].df = sess[2].df
             /\ \E s \in Sessions : file.rows = Append(sess[s].df, RowOf(s))
             /\ Len(file.rows) = Len(sess[1].df) + 1
        /\ sess[1].saw # sess[2].saw =>
             \E a, b \in Sessions :
                /\ sess[a].saw < sess[b].saw
                /\ file.rows = Append(Append(sess[a].df, RowOf(a)), RowOf(b))

\* both saves succeeded, Ann's and Bob's, and the ledger holds one new row
C2_Witness ==
    /\ BothSaved
    /\ sess[1].saw = sess[2].saw
    /\ sess[1].name = NameAnn /\ sess[2].name = NameBob
    /\ Len(receipts) = 2
    /\ Len(file.rows) = Len(sess[1].df) + 1
    /\ ~ \E i \in 1..Len(file.rows) : file.rows[i] = RowOf(1)

====
